---- MODULE Spec2Model ----
(***************************************************************************)
(* Model of the votingSim election core: the four voting rules of          *)
(* election/system.py (plurality, Borda, instant-runoff, ranked pairs),    *)
(* the ballot primitives of election/utils.py and the fairness metrics of  *)
(* election/fairness.py.                                                   *)
(*                                                                         *)
(* Candidates are the integers 1..m (sorted() is numeric order).  A ballot *)
(* is a sequence of candidates, a BallotSet a sequence of ballots.         *)
(* Python's None is NoneVal, a propagated exception is Raised.  A dict is  *)
(* modelled with its key sequence in insertion order, since max()/min()    *)
(* and "for k in d" follow that order.  A float result a/b is the record   *)
(* [err, num, den].                                                        *)
(***************************************************************************)
EXTENDS Integers, Sequences, FiniteSets, TLC

\* at most MaxCands candidates, at most MaxCells ballot entries in a BallotSet
\* (voters times candidates), at most MaxTrials requested trials
MaxCands == 3
MaxCells == 9
MaxTrials == 2

NoneVal == 0
Raised == -1

Rules == {"plurality", "borda", "irv", "ranked_pairs"}

(***************************************************************************)
(* Inputs: the empty BallotSet and every BallotSet of n >= 1 strict total   *)
(* orders over the candidates 1..m, m <= MaxCands and n * m <= MaxCells.   *)
(***************************************************************************)
Perms(m) == {p \in [1..m -> 1..m] : \A i, j \in 1..m : i # j => p[i] # p[j]}

BallotSets ==
    {<< >>} \cup
    UNION {[1..q[2] -> Perms(q[1])] :
              q \in {r \in (1..MaxCands) \X (1..MaxCells) : r[1] * r[2] <= MaxCells}}

(***************************************************************************)
(* Python built-ins used by the code.                                      *)
(***************************************************************************)
Range(s) == {s[i] : i \in 1..Len(s)}

\* list.index(x), zero-based as in Python
index(s, x) == (CHOOSE i \in 1..Len(s) : s[i] = x /\ \A j \in 1..(i-1) : s[j] # x) - 1

\* insertion order of the keys of a dict filled by walking s
RECURSIVE KeyOrder(_)
KeyOrder(s) ==
    IF s = << >> THEN << >>
    ELSE LET r == KeyOrder(SubSeq(s, 1, Len(s) - 1))
             x == s[Len(s)]
         IN  IF x \in Range(r) THEN r ELSE Append(r, x)

\* max(d, key=d.get): the first key, in insertion order, of maximal value
MaxKey(keys, f) ==
    keys[CHOOSE i \in 1..Len(keys) :
            /\ \A j \in 1..Len(keys) : f[keys[j]] <= f[keys[i]]
            /\ \A j \in 1..(i-1) : f[keys[j]] < f[keys[i]]]

\* min(d, key=d.get): the first key, in insertion order, of minimal value
MinKey(keys, f) ==
    keys[CHOOSE i \in 1..Len(keys) :
            /\ \A j \in 1..Len(keys) : f[keys[j]] >= f[keys[i]]
            /\ \A j \in 1..(i-1) : f[keys[j]] > f[keys[i]]]

RECURSIVE SumValues(_, _)
SumValues(keys, f) ==
    IF keys = << >> THEN 0 ELSE f[keys[1]] + SumValues(Tail(keys), f)

RECURSIVE Flatten(_)
Flatten(ss) == IF ss = << >> THEN << >> ELSE ss[1] \o Flatten(Tail(ss))

RECURSIVE SetToSeq(_)
SetToSeq(S) ==
    IF S = {} THEN << >>
    ELSE LET x == CHOOSE y \in S : TRUE IN <<x>> \o SetToSeq(S \ {x})

(***************************************************************************)
(* election/utils.py                                                       *)
(***************************************************************************)
count_first_choices(ballots) ==
    LET first_choices == [i \in 1..Len(ballots) |-> ballots[i][1]]
        keys == KeyOrder(first_choices)
    IN  [keys |-> keys,
         cnt  |-> [c \in Range(keys) |->
                     Cardinality({i \in 1..Len(ballots) : first_choices[i] = c})]]

remove_candidate(ballots, candidate) ==
    [i \in 1..Len(ballots) |-> SelectSeq(ballots[i], LAMBDA c : c # candidate)]

(***************************************************************************)
(* election/system.py: plurality and Borda                                 *)
(***************************************************************************)
plurality_winner(ballots) ==
    LET tally == count_first_choices(ballots)
    IN  IF tally.keys = << >> THEN Raised      \* max() of an empty Counter
        ELSE MaxKey(tally.keys, tally.cnt)

BordaPointsReversed(num_candidates, rank) == rank

BordaPoints(num_candidates, rank) == num_candidates - rank - 1

RECURSIVE BordaScore(_, _, _)
BordaScore(ballots, num_candidates, c) ==
    IF ballots = << >> THEN 0
    ELSE BordaPoints(num_candidates, index(ballots[1], c))
         + BordaScore(Tail(ballots), num_candidates, c)

borda_winner(ballots) ==
    IF ballots = << >> THEN Raised              \* ballots[0] of an empty list
    ELSE LET num_candidates == Len(ballots[1])
             keys == KeyOrder(Flatten(ballots))
             scores == [c \in Range(keys) |-> BordaScore(ballots, num_candidates, c)]
         IN  MaxKey(keys, scores)

(***************************************************************************)
(* election/system.py: instant-runoff voting.  irv_round is one pass of    *)
(* the while loop: done says whether it returned, ret what it returned,    *)
(* lowest the candidate it eliminated (NoneVal if none), next the value of *)
(* ballots_copy after the pass.                                            *)
(***************************************************************************)
IsMajorityNonStrict(votes, total_votes) == 2 * votes >= total_votes

IsMajority(votes, total_votes) == 2 * votes > total_votes

irv_round(ballots_copy) ==
    LET tally == count_first_choices(ballots_copy)
        total_votes == SumValues(tally.keys, tally.cnt)
        maj == {i \in 1..Len(tally.keys) :
                   IsMajority(tally.cnt[tally.keys[i]], total_votes)}
    IN  IF maj # {}
        THEN [done |-> TRUE,
              ret |-> tally.keys[CHOOSE i \in maj : \A j \in maj : i <= j],
              lowest |-> NoneVal, next |-> ballots_copy]
        ELSE IF tally.keys = << >>
        THEN [done |-> TRUE, ret |-> Raised,     \* min() of an empty Counter
              lowest |-> NoneVal, next |-> ballots_copy]
        ELSE LET lowest == MinKey(tally.keys, tally.cnt)
                 pruned == remove_candidate(ballots_copy, lowest)
             IN  IF Len(pruned[1]) = 1
                 THEN [done |-> TRUE, ret |-> pruned[1][1],
                       lowest |-> lowest, next |-> pruned]
                 ELSE [done |-> FALSE, ret |-> NoneVal,
                       lowest |-> lowest, next |-> pruned]

RECURSIVE irv_loop(_)
irv_loop(ballots_copy) ==
    LET r == irv_round(ballots_copy)
    IN  IF r.done THEN r.ret ELSE irv_loop(r.next)

irv_winner(ballots) == irv_loop(ballots)

(***************************************************************************)
(* election/system.py: ranked pairs (Tideman)                              *)
(***************************************************************************)
\* pairwise[(a,b)]: the number of ballots that list a before b
PairwiseCount(ballots, a, b) ==
    Cardinality({i \in 1..Len(ballots) : index(ballots[i], a) < index(ballots[i], b)})

LosesPair(a_over_b, b_over_a) == a_over_b < b_over_a

WinsPair(a_over_b, b_over_a) == a_over_b > b_over_a

\* the list pairs before the sort: (a, b, margin) in the order of the two loops
UnsortedPairs(ballots, candidates) ==
    LET m == Len(candidates)
        all == [x \in 1..(m * m) |->
                  <<candidates[((x - 1) \div m) + 1], candidates[((x - 1) % m) + 1]>>]
        won == SelectSeq(all, LAMBDA p :
                  /\ p[1] # p[2]
                  /\ WinsPair(PairwiseCount(ballots, p[1], p[2]),
                              PairwiseCount(ballots, p[2], p[1])))
    IN  [x \in 1..Len(won) |->
            <<won[x][1], won[x][2],
              PairwiseCount(ballots, won[x][1], won[x][2])
                - PairwiseCount(ballots, won[x][2], won[x][1])>>]

\* list.sort(key=lambda x: -x[2]): stable, so equal margins keep their order;
\* every margin lies in lo..hi
RECURSIVE SortByMargin(_, _, _)
SortByMargin(ps, hi, lo) ==
    IF hi < lo THEN << >>
    ELSE SelectSeq(ps, LAMBDA p : p[3] = hi) \o SortByMargin(ps, hi - 1, lo)

SortedPairs(ballots) ==
    SortByMargin(UnsortedPairs(ballots, ballots[1]), Len(ballots), -Len(ballots))

EmptyLocked(candidates) == [c \in Range(candidates) |-> {}]

\* the while loop of creates_cycle: depth-first search from the stack
RECURSIVE CycleSearch(_, _, _, _)
CycleSearch(start, graph, stack, visited) ==
    IF stack = << >> THEN FALSE
    ELSE LET node == stack[Len(stack)]
             rest == SubSeq(stack, 1, Len(stack) - 1)
         IN  IF node = start THEN TRUE
             ELSE LET seen == visited \cup {node}
                  IN  CycleSearch(start, graph,
                                  rest \o SetToSeq(graph[node] \ seen), seen)

creates_cycle_never(start, end, graph) == FALSE

creates_cycle(start, end, graph) == CycleSearch(start, graph, <<end>>, {})

\* one pass of the lock loop
LockPair(locked, pair) ==
    IF ~creates_cycle(pair[1], pair[2], locked)
    THEN [locked EXCEPT ![pair[1]] = @ \cup {pair[2]}]
    ELSE locked

RECURSIVE LockAll(_, _)
LockAll(locked, ps) ==
    IF ps = << >> THEN locked ELSE LockAll(LockPair(locked, ps[1]), Tail(ps))

\* zero_in[0] if zero_in else None
ZeroInWinner(candidates, locked) ==
    LET incoming == [c \in Range(candidates) |->
                       Cardinality({a \in DOMAIN locked : c \in locked[a]})]
        zero_in == SelectSeq(candidates, LAMBDA c : incoming[c] = 0)
    IN  IF zero_in # << >> THEN zero_in[1] ELSE NoneVal

ranked_pairs_winner(ballots) ==
    IF ballots = << >> THEN NoneVal
    ELSE ZeroInWinner(ballots[1],
                      LockAll(EmptyLocked(ballots[1]), SortedPairs(ballots)))

ApplyRule(r, ballots) ==
    CASE r = "plurality"    -> plurality_winner(ballots)
      [] r = "borda"        -> borda_winner(ballots)
      [] r = "irv"          -> irv_winner(ballots)
      [] r = "ranked_pairs" -> ranked_pairs_winner(ballots)

(***************************************************************************)
(* election/fairness.py                                                    *)
(***************************************************************************)
\* the dict matrix as a function on its keys; {} is the empty function
pairwise_matrix(ballots) ==
    IF ballots = << >> THEN [p \in {} |-> 0]
    ELSE LET candidates == Range(ballots[1])
         IN  [p \in {q \in candidates \X candidates : q[1] # q[2]} |->
                 PairwiseCount(ballots, p[1], p[2])]

find_condorcet_winner(ballots) ==
    LET matrix == pairwise_matrix(ballots)
    IN  IF DOMAIN matrix = {} THEN NoneVal
        ELSE LET candidates == {p[1] : p \in DOMAIN matrix} \cup {p[2] : p \in DOMAIN matrix}
                 beats_all == {c \in candidates :
                                 \A other \in candidates \ {c} :
                                    ~(matrix[<<c, other>>] <= matrix[<<other, c>>])}
             IN  IF beats_all = {} THEN NoneVal
                 ELSE CHOOSE c \in beats_all : \A d \in beats_all : c <= d

Float(num, den) == [err |-> FALSE, num |-> num, den |-> den]

FloatError == [err |-> TRUE, num |-> 0, den |-> 1]

RECURSIVE RankSum(_, _, _)
RankSum(ballots, n, winner) ==
    IF ballots = << >> THEN 0
    ELSE (n - 1 - index(ballots[1], winner)) + RankSum(Tail(ballots), n, winner)

\* total / len(ballots), every term of total being (n-1-rank)/(n-1)
satisfaction_score(r, ballots) ==
    IF ballots = << >> THEN Float(0, 1)
    ELSE LET winner == ApplyRule(r, ballots)
             n == Len(ballots[1])
         IN  IF winner = Raised THEN FloatError
             ELSE IF winner = NoneVal THEN Float(0, 1)
             ELSE IF n - 1 = 0 THEN FloatError       \* ZeroDivisionError
             ELSE Float(RankSum(ballots, n, winner), (n - 1) * Len(ballots))

condorcet_compliance(r, ballots) ==
    LET cw == find_condorcet_winner(ballots)
    IN  IF cw = NoneVal THEN "None"
        ELSE LET winner == ApplyRule(r, ballots)
             IN  IF winner = Raised THEN "Raised"
                 ELSE IF cw = winner THEN "True" ELSE "False"

\* The value a copy holds and whether its inner lists are the argument's own
\* lists, so that an assignment into the copy also writes the argument.
SameLists(ballots) == [shared |-> TRUE, val |-> ballots]

deepcopy(ballots) == [shared |-> FALSE, val |-> ballots]

SwapDown(b, pos) ==
    IF pos + 2 <= Len(b)
    THEN [b EXCEPT ![pos + 1] = b[pos + 2], ![pos + 2] = b[pos + 1]]
    ELSE b

\* b[pos], b[pos-1] = b[pos-1], b[pos]  (pos zero-based)
SwapUp(b, pos) == [b EXCEPT ![pos + 1] = b[pos], ![pos] = b[pos + 1]]

\* idxs: the (one-based) ballots on which the winner is not on top
PromotableIdxs(b_copy, original_winner) ==
    {i \in 1..Len(b_copy) : index(b_copy[i], original_winner) > 0}

PromoteOn(b_copy, i, original_winner) ==
    [b_copy EXCEPT ![i] = SwapUp(b_copy[i], index(b_copy[i], original_winner))]

ViolationRate(violations, trials) ==
    Float(violations, IF trials > 1 THEN trials ELSE 1)

(***************************************************************************)
(* State.  ballots is the caller's BallotSet; op and rule name the call in *)
(* progress and pc its position; the other variables are the locals and    *)
(* return values of the calls.                                             *)
(***************************************************************************)
VARIABLES ballots, pc, op, rule, result, score, compliance, winner,
          ballots_copy, lowest, rounds,
          pairs, k, locked,
          trials, t, b_copy, original_winner, new_winner, violations

vars == <<ballots, pc, op, rule, result, score, compliance, winner,
          ballots_copy, lowest, rounds, pairs, k, locked,
          trials, t, b_copy, original_winner, new_winner, violations>>

retVars == <<result, score, compliance, winner>>
irvVars == <<ballots_copy, lowest, rounds>>
rpVars == <<pairs, k, locked>>
monoVars == <<trials, t, b_copy, original_winner, new_winner, violations>>

Init ==
    /\ ballots \in BallotSets
    /\ pc = "idle"
    /\ op = "none"
    /\ rule = "none"
    /\ result = NoneVal
    /\ score = Float(0, 1)
    /\ compliance = "unset"
    /\ winner = NoneVal
    /\ ballots_copy = << >>
    /\ lowest = NoneVal
    /\ rounds = 0
    /\ pairs = << >>
    /\ k = 0
    /\ locked = << >>
    /\ trials = 0
    /\ t = 0
    /\ b_copy = << >>
    /\ original_winner = NoneVal
    /\ new_winner = NoneVal
    /\ violations = 0

(***************************************************************************)
(* Calls that are a single step                                            *)
(***************************************************************************)
CallPlurality ==
    /\ pc = "idle"
    /\ pc' = "done"
    /\ op' = "plurality_winner"
    /\ result' = plurality_winner(ballots)
    /\ UNCHANGED <<ballots, rule, score, compliance, winner, irvVars, rpVars, monoVars>>

CallBorda ==
    /\ pc = "idle"
    /\ pc' = "done"
    /\ op' = "borda_winner"
    /\ result' = borda_winner(ballots)
    /\ UNCHANGED <<ballots, rule, score, compliance, winner, irvVars, rpVars, monoVars>>

CallCondorcet ==
    /\ pc = "idle"
    /\ pc' = "done"
    /\ op' = "find_condorcet_winner"
    /\ result' = find_condorcet_winner(ballots)
    /\ UNCHANGED <<ballots, rule, score, compliance, winner, irvVars, rpVars, monoVars>>

CallSatisfaction ==
    /\ pc = "idle"
    /\ \E r \in Rules :
          /\ rule' = r
          /\ winner' = IF ballots = << >> THEN NoneVal ELSE ApplyRule(r, ballots)
          /\ score' = satisfaction_score(r, ballots)
    /\ pc' = "done"
    /\ op' = "satisfaction_score"
    /\ UNCHANGED <<ballots, result, compliance, irvVars, rpVars, monoVars>>

CallCompliance ==
    /\ pc = "idle"
    /\ \E r \in Rules :
          /\ rule' = r
          /\ winner' = IF find_condorcet_winner(ballots) = NoneVal THEN NoneVal
                       ELSE ApplyRule(r, ballots)
          /\ compliance' = condorcet_compliance(r, ballots)
    /\ pc' = "done"
    /\ op' = "condorcet_compliance"
    /\ UNCHANGED <<ballots, result, score, irvVars, rpVars, monoVars>>

(***************************************************************************)
(* irv_winner, one action per pass of its while loop                       *)
(***************************************************************************)
IrvCall ==
    /\ pc = "idle"
    /\ pc' = "irv"
    /\ op' = "irv_winner"
    /\ ballots_copy' = ballots
    /\ UNCHANGED <<ballots, rule, retVars, lowest, rounds, rpVars, monoVars>>

IrvRound ==
    /\ pc = "irv"
    /\ LET r == irv_round(ballots_copy)
       IN  /\ ballots_copy' = r.next
           /\ lowest' = r.lowest
           /\ rounds' = IF r.lowest # NoneVal THEN rounds + 1 ELSE rounds
           /\ pc' = IF r.done THEN "done" ELSE "irv"
           /\ result' = IF r.done THEN r.ret ELSE result
    /\ UNCHANGED <<ballots, op, rule, score, compliance, winner, rpVars, monoVars>>

(***************************************************************************)
(* ranked_pairs_winner, one action per pass of its lock loop               *)
(***************************************************************************)
RpCall ==
    /\ pc = "idle"
    /\ op' = "ranked_pairs_winner"
    /\ IF ballots = << >>
       THEN /\ pc' = "done"
            /\ result' = NoneVal
            /\ UNCHANGED rpVars
       ELSE /\ pc' = "rp_lock"
            /\ pairs' = SortedPairs(ballots)
            /\ k' = 0
            /\ locked' = EmptyLocked(ballots[1])
            /\ UNCHANGED result
    /\ UNCHANGED <<ballots, rule, score, compliance, winner, irvVars, monoVars>>

RpLock ==
    /\ pc = "rp_lock"
    /\ k < Len(pairs)
    /\ locked' = LockPair(locked, pairs[k + 1])
    /\ k' = k + 1
    /\ UNCHANGED <<ballots, pc, op, rule, retVars, pairs, irvVars, monoVars>>

RpReturn ==
    /\ pc = "rp_lock"
    /\ k = Len(pairs)
    /\ result' = ZeroInWinner(ballots[1], locked)
    /\ pc' = "done"
    /\ UNCHANGED <<ballots, op, rule, score, compliance, winner, rpVars, irvVars, monoVars>>

(***************************************************************************)
(* monotonicity_violation_rate, one action per pass of its trial loop      *)
(***************************************************************************)
MonoCall ==
    /\ pc = "idle"
    /\ op' = "monotonicity_violation_rate"
    /\ \E r \in Rules, n \in 0..MaxTrials :
          /\ rule' = r
          /\ trials' = n
          /\ IF ballots = << >>
             THEN /\ pc' = "done"
                  /\ score' = Float(0, 1)
                  /\ UNCHANGED original_winner
             ELSE LET w == ApplyRule(r, ballots)
                  IN  /\ original_winner' = w
                      /\ pc' = IF w \in {NoneVal, Raised} THEN "done" ELSE "mono"
                      /\ score' = IF w = Raised THEN FloatError ELSE Float(0, 1)
    /\ UNCHANGED <<ballots, result, compliance, winner, irvVars, rpVars,
                   t, b_copy, new_winner, violations>>

MonoTrial ==
    /\ pc = "mono"
    /\ t < trials
    /\ LET fresh == deepcopy(ballots)
       IN  \E i \in PromotableIdxs(fresh.val, original_winner) :
              LET promoted == PromoteOn(fresh.val, i, original_winner)
                  w == ApplyRule(rule, promoted)
              IN  /\ b_copy' = promoted
                  /\ ballots' = IF fresh.shared THEN promoted ELSE ballots
                  /\ new_winner' = w
                  /\ violations' = IF w # original_winner THEN violations + 1
                                   ELSE violations
    /\ t' = t + 1
    /\ UNCHANGED <<pc, op, rule, retVars, irvVars, rpVars, trials, original_winner>>

\* "if not idxs: break", then the return
MonoBreak ==
    /\ pc = "mono"
    /\ t < trials
    /\ PromotableIdxs(deepcopy(ballots).val, original_winner) = {}
    /\ b_copy' = deepcopy(ballots).val
    /\ pc' = "done"
    /\ score' = ViolationRate(violations, trials)
    /\ UNCHANGED <<ballots, op, rule, result, compliance, winner, irvVars, rpVars,
                   trials, t, original_winner, new_winner, violations>>

MonoReturn ==
    /\ pc = "mono"
    /\ t = trials
    /\ pc' = "done"
    /\ score' = ViolationRate(violations, trials)
    /\ UNCHANGED <<ballots, op, rule, result, compliance, winner, irvVars, rpVars,
                   monoVars>>

Next ==
    \/ CallPlurality
    \/ CallBorda
    \/ CallCondorcet
    \/ CallSatisfaction
    \/ CallCompliance
    \/ IrvCall
    \/ IrvRound
    \/ RpCall
    \/ RpLock
    \/ RpReturn
    \/ MonoCall
    \/ MonoTrial
    \/ MonoBreak
    \/ MonoReturn

Spec == Init /\ [][Next]_vars

TypeOK ==
    /\ ballots \in BallotSets
    /\ pc \in {"idle", "irv", "rp_lock", "mono", "done"}
    /\ result \in -1..MaxCands
    /\ t \in 0..MaxTrials

(***************************************************************************)
(* Properties                                                              *)
(***************************************************************************)
RuleOps == {"plurality_winner", "borda_winner", "irv_winner", "ranked_pairs_winner"}

Universe == IF ballots = << >> THEN {} ELSE Range(ballots[1])

\* c is ranked above o on strictly more ballots than o above c, for every o
BeatsAll(c) ==
    \A o \in Universe \ {c} :
        Cardinality({i \in 1..Len(ballots) : index(ballots[i], c) < index(ballots[i], o)})
      > Cardinality({i \in 1..Len(ballots) : index(ballots[i], o) < index(ballots[i], c)})

FirstChoiceCount(bs, c) == Cardinality({i \in 1..Len(bs) : bs[i][1] = c})

\* C1: when find_condorcet_winner returns a candidate for a non-empty
\* BallotSet, ranked_pairs_winner returns that candidate and
\* condorcet_compliance(ranked_pairs_winner, ballots) is True.
C1_RankedPairsCondorcet ==
    /\ (/\ pc = "done" /\ op = "ranked_pairs_winner" /\ ballots # << >>
        /\ find_condorcet_winner(ballots) # NoneVal)
          => result = find_condorcet_winner(ballots)
    /\ (/\ pc = "done" /\ op = "condorcet_compliance" /\ rule = "ranked_pairs"
        /\ find_condorcet_winner(ballots) # NoneVal)
          => compliance = "True"

\* ranked pairs has returned on an election whose Condorcet winner is not the
\* first candidate of the first ballot and in which two pairs have equal margin
C1_Witness ==
    /\ pc = "done" /\ op = "ranked_pairs_winner"
    /\ Len(ballots) = 3 /\ Len(ballots[1]) = 3
    /\ find_condorcet_winner(ballots) # NoneVal
    /\ find_condorcet_winner(ballots) # ballots[1][1]
    /\ \E x, y \in 1..Len(pairs) : x # y /\ pairs[x][3] = pairs[y][3]
    /\ result = find_condorcet_winner(ballots)

AllIdentical == ballots # << >> /\ \A i \in 1..Len(ballots) : ballots[i] = ballots[1]

\* C2: on a non-empty BallotSet whose ballots are all the same ranking, each
\* of the four rules returns the candidate at position 0 of that ranking.
C2_UnanimousFirst ==
    (pc = "done" /\ op \in RuleOps /\ AllIdentical) => result = ballots[1][1]

C2_Witness ==
    /\ pc = "done" /\ op = "borda_winner" /\ AllIdentical
    /\ Len(ballots) >= 2 /\ Len(ballots[1]) = 3 /\ ballots[1][1] = 3
    /\ result = 3

\* C3: under plurality_winner and borda_winner every trial of
\* monotonicity_violation_rate yields the baseline winner again, so no
\* violation is counted and the returned rate is 0.
C3_PluralityBordaMonotonic ==
    (op = "monotonicity_violation_rate" /\ rule \in {"plurality", "borda"}) =>
        /\ violations = 0
        /\ (t > 0 => new_winner = original_winner)
        /\ (pc = "done" => ~score.err /\ score.num = 0)

\* a Borda trial has promoted a winner that was tied for the maximum score
C3_Witness ==
    /\ op = "monotonicity_violation_rate" /\ rule = "borda" /\ t >= 1
    /\ b_copy # ballots
    /\ \E c \in Universe \ {original_winner} :
          BordaScore(ballots, Len(ballots[1]), c)
            = BordaScore(ballots, Len(ballots[1]), original_winner)
    /\ new_winner = original_winner

\* C4: on a non-empty BallotSet for which the rule returns a candidate,
\* satisfaction_score returns a value (no error), exactly 1 when every
\* ballot ranks the winner first and exactly 0 when every ballot ranks it last.
C4_SatisfactionExtremes ==
    (/\ pc = "done" /\ op = "satisfaction_score" /\ ballots # << >>
     /\ winner \notin {NoneVal, Raised}) =>
        /\ ~score.err
        /\ (\A i \in 1..Len(ballots) : ballots[i][1] = winner)
              => score.num = score.den
        /\ (\A i \in 1..Len(ballots) : ballots[i][Len(ballots[i])] = winner)
              => score.num = 0

\* C5: find_condorcet_winner returns c iff c strictly beats every other
\* candidate (vacuously so for a sole candidate), at most one candidate does,
\* and it returns none exactly when no candidate does.
C5_CondorcetIff ==
    (pc = "done" /\ op = "find_condorcet_winner") =>
        /\ \A c \in Universe : (result = c) <=> BeatsAll(c)
        /\ Cardinality({c \in Universe : BeatsAll(c)}) <= 1
        /\ (result = NoneVal) <=> ({c \in Universe : BeatsAll(c)} = {})

\* C6: on the empty BallotSet each of the four rules returns none and does
\* not end in an error.
C6_EmptyReturnsNone ==
    (pc = "done" /\ op \in RuleOps /\ ballots = << >>) => result = NoneVal

\* every non-empty set of candidates has a member with no locked edge coming
\* from the set
Acyclic(graph) ==
    \A S \in (SUBSET (DOMAIN graph)) \ {{}} :
        \E c \in S : \A a \in S : c \notin graph[a]

\* C7: after every pass of the lock loop of ranked_pairs_winner the locked
\* graph has no directed cycle, some candidate has no incoming locked edge,
\* and none is never returned for a non-empty BallotSet.
C7_LockedAcyclic ==
    (op = "ranked_pairs_winner" /\ ballots # << >>) =>
        /\ Acyclic(locked)
        /\ \E c \in Universe : \A a \in Universe : c \notin locked[a]
        /\ (pc = "done" => result \in Universe)

\* the lock loop has finished and skipped at least one pair
C7_Witness ==
    /\ op = "ranked_pairs_winner" /\ pc = "done"
    /\ Len(pairs) = 3 /\ k = 3
    /\ Cardinality({e \in Universe \X Universe : e[2] \in locked[e[1]]}) < 3
    /\ result \in Universe

\* C8: the candidate an IRV round removes has the minimum first-choice count
\* among all candidates still on the ballots, a candidate without
\* first-choice votes counting 0.
C8_EliminatesMinimum ==
    [][(pc = "irv" /\ rounds' = rounds + 1) =>
          \A c \in Range(ballots_copy[1]) :
              FirstChoiceCount(ballots_copy, lowest') <= FirstChoiceCount(ballots_copy, c)]_vars

\* C9: irv_winner on a non-empty BallotSet over m candidates makes at most
\* m-1 eliminations, each shortening every ballot by exactly one candidate,
\* and returns a member of the universe, either one holding a strict
\* majority of first choices or the sole candidate left.
C9_IrvTerminates ==
    (op = "irv_winner" /\ ballots # << >>) =>
        /\ rounds <= Len(ballots[1]) - 1
        /\ Len(ballots_copy) = Len(ballots)
        /\ \A i \in 1..Len(ballots_copy) :
              /\ Len(ballots_copy[i]) = Len(ballots[1]) - rounds
              /\ Range(ballots_copy[i]) \subseteq Universe
        /\ (pc = "done" =>
              /\ result \in Universe
              /\ \/ 2 * FirstChoiceCount(ballots_copy, result) > Len(ballots_copy)
                 \/ Len(ballots_copy[1]) = 1)

\* IRV returned after m-1 = 2 eliminations, no round having seen a majority
C9_Witness ==
    /\ op = "irv_winner" /\ pc = "done" /\ ballots # << >>
    /\ Len(ballots[1]) = 3 /\ rounds = 2
    /\ Len(ballots_copy[1]) = 1
    /\ result \in Universe

\* b is a with w exchanged with the candidate immediately above it
OneSwapUp(a, b, w) ==
    \E p \in 2..Len(a) :
        /\ a[p] = w
        /\ b = [x \in 1..Len(a) |-> IF x = p - 1 THEN w
                                     ELSE IF x = p THEN a[p - 1] ELSE a[x]]

\* C10: every trial of monotonicity_violation_rate runs the rule on a
\* BallotSet that differs from the caller's in exactly one ballot, by one
\* swap of the baseline winner with the candidate immediately above it, and
\* the caller's BallotSet is never changed.
C10_OneSwapPerTrial ==
    [][/\ ballots' = ballots
       /\ (t' # t) =>
             /\ Len(b_copy') = Len(ballots)
             /\ \E i \in 1..Len(ballots) :
                   /\ OneSwapUp(ballots[i], b_copy'[i], original_winner)
                   /\ \A j \in 1..Len(ballots) : j # i => b_copy'[j] = ballots[j]]_vars

\* a second trial has run, on a ballot other than the first trial's
C10_Witness ==
    /\ op = "monotonicity_violation_rate" /\ t = 2
    /\ Len(ballots) >= 2
    /\ \E i \in 1..Len(ballots) :
          /\ OneSwapUp(ballots[i], b_copy[i], original_winner)
          /\ \A j \in 1..Len(ballots) : j # i => b_copy[j] = ballots[j]

====
